---- MODULE Spec2Model ----
\* synchronized_value<T> and synchronized_scope<SVs...> of
\* src/synchronized_value.h as a state machine.
\*
\* Every thread runs caller code that opens access proxies (the dereference
\* operators of synchronized_value) and scopes, strictly nested as C++ object
\* lifetimes are, and destroys them in reverse order.  Each atomic operation,
\* mutex operation and plain access to locker_thread_id of the source is one
\* step.  A synchronized_value is identified by its address, a number 1..N.
\*
\* locker_thread_id is a plain field read without the mutex (lines 103 and
\* 180) while another thread may write it.  Only thread t ever writes the id
\* t, so whether such a read equals the reader's own id does not depend on
\* how it interleaves with the writes of other threads; the read is taken in
\* the same step as the failed compare-exchange before it.
\* lock_for_scope and unlock_from_scope (lines 38-49) are never called and
\* have no action.  A thread is in a position to touch the payload while it
\* holds a constructed proxy or scope; the payload itself (obj) is read and
\* written only by the callers that compare and assign (CompareSpec).
EXTENDS Integers, Sequences, FiniteSets, TLC

\* ---------------------------------------------------------------- bounds
NumThreads == 2
NumValues == 3
MaxDepth == 2
\* the payloads are the integers 0..MaxPayload (main.cpp's lives_cnt)
MaxPayload == 1

Threads == 1..NumThreads
Values == 1..NumValues
Payloads == 0..MaxPayload

\* ------------------------------------------------------------- constants
\* enum class LockState
Unlocked == 0
Operator == 1
Scope == 2
\* std::thread::id{} : the id of no thread; also "mutex free"
NoThread == 0
\* an operand the comparison has not read yet; no result yet
NoPayload == -1
NoResult == "none"

\* The argument lists of the scopes the callers build: one value, as in
\* main.cpp's pacicka_scope, or two, as in main.cpp's scope and in the
\* comparison operators (this, other); a value may be given twice (a == a).
ScopeArgs == {<<a>> : a \in Values} \cup {<<a, b>> : a \in Values, b \in Values}

VARIABLES
    lock_state,         \* [Values -> LockState]  the atomic of each value
    mtx,                \* [Values -> Threads \cup {NoThread}]  holder of the std::mutex
    locker_thread_id,   \* [Values -> Threads \cup {NoThread}]
    claimer,            \* history: the thread whose compare-exchange took lock_state from Unlocked
    stack,              \* [Threads -> Seq(frame)]  live proxies and scopes, innermost last
    pc,                 \* [Threads -> position in the code]
    expected,           \* [Threads -> LockState]  access_proxy ctor's local
    idx,                \* [Threads -> Nat]  position in the loop the thread is in
    lock_plan,          \* [Threads -> Seq(Values)]  lock_all's lock_plan (the keys)
    locks_to_wait_for,  \* [Threads -> Seq(Values)]  lock_all's locks_to_wait_for
    script,             \* [Threads -> Seq(call)]  what is left of a caller with a fixed program
    obj,                \* [Values -> Payloads]  the payload of each value
    loaded,             \* [Threads -> <<lhs, rhs>>]  the operands operator<=> has read
    result              \* [Threads -> ordering]  what the thread's last operator<=> computed

vars == <<lock_state, mtx, locker_thread_id, claimer, stack, pc, expected, idx,
          lock_plan, locks_to_wait_for, script, obj, loaded, result>>

shared == <<lock_state, mtx, locker_thread_id, claimer>>
data == <<obj, loaded, result>>
scopeLocals == <<idx, lock_plan, locks_to_wait_for>>

\* ----------------------------------------------------------------- frames
ProxyFrame(v) == [kind |-> "proxy", sv |-> <<v>>, owns |-> FALSE, acquired |-> FALSE]
ScopeFrame(args) == [kind |-> "scope", sv |-> args, owns |-> FALSE, acquired |-> FALSE]

Depth(t) == Len(stack[t])
Top(t) == stack[t][Depth(t)]
Pop(t) == [stack EXCEPT ![t] = SubSeq(stack[t], 1, Depth(t) - 1)]
SetTop(t, f) == [stack EXCEPT ![t][Depth(t)] = f]
\* the value an access_proxy under construction or destruction refers to
ProxyValue(t) == Top(t).sv[1]
SeqRange(s) == {s[i] : i \in 1..Len(s)}

\* every lock as constructed, no thread inside any call
InitLocks ==
    /\ lock_state = [v \in Values |-> Unlocked]
    /\ mtx = [v \in Values |-> NoThread]
    /\ locker_thread_id = [v \in Values |-> NoThread]
    /\ claimer = [v \in Values |-> NoThread]
    /\ stack = [t \in Threads |-> <<>>]
    /\ pc = [t \in Threads |-> "idle"]
    /\ expected = [t \in Threads |-> Unlocked]
    /\ idx = [t \in Threads |-> 0]
    /\ lock_plan = [t \in Threads |-> <<>>]
    /\ locks_to_wait_for = [t \in Threads |-> <<>>]
    /\ loaded = [t \in Threads |-> <<NoPayload, NoPayload>>]
    /\ result = [t \in Threads |-> NoResult]

\* every value as constructed, all with the same payload
InitState ==
    /\ InitLocks
    /\ obj = [v \in Values |-> 0]

Init ==
    /\ InitState
    /\ script = [t \in Threads |-> <<>>]

\* ------------------------------------------------- atomic wait and notify
\* the value thread w is blocked on in std::atomic::wait
WaitValue(w) ==
    IF pc[w] = "ap_blocked" THEN ProxyValue(w) ELSE locks_to_wait_for[w][idx[w]]
Blocked(w) == pc[w] \in {"ap_blocked", "sc_blocked"}
Waiters(v) == {w \in Threads : Blocked(w) /\ WaitValue(w) = v}
\* a woken waiter evaluates the load of its wait again
Rewait(p) == IF p = "ap_blocked" THEN "ap_wait" ELSE "sc_wait"

\* t executes lock_state.notify_one() on v and goes to position next:
\* one of the blocked waiters, if any, is unblocked
NotifyOne(t, v, next) ==
    IF Waiters(v) = {}
    THEN pc' = [pc EXCEPT ![t] = next]
    ELSE \E w \in Waiters(v) : pc' = [pc EXCEPT ![t] = next, ![w] = Rewait(pc[w])]

\* std::atomic::wait may also be unblocked spuriously; it returns only when
\* the value differs from the old one, so other spurious wake-ups are no steps
SpuriousWake(w) ==
    /\ Blocked(w)
    /\ lock_state[WaitValue(w)] # (IF pc[w] = "ap_blocked" THEN expected[w] ELSE Scope)
    /\ pc' = [pc EXCEPT ![w] = Rewait(pc[w])]
    /\ UNCHANGED <<shared, stack, expected, script, data, scopeLocals>>

\* ------------------------------------------------------------ access_proxy
\* operator-> / operator* : an access proxy on v is opened; its constructor
\* starts with expected = Unlocked
AccessBegin(t, v) ==
    /\ pc[t] = "idle"
    /\ Depth(t) < MaxDepth
    /\ stack' = [stack EXCEPT ![t] = Append(stack[t], ProxyFrame(v))]
    /\ expected' = [expected EXCEPT ![t] = Unlocked]
    /\ pc' = [pc EXCEPT ![t] = "ap_cas"]
    /\ UNCHANGED <<shared, scopeLocals>>

\* state.compare_exchange_weak(expected, Operator) succeeds
ApCasSucceed(t) ==
    /\ pc[t] = "ap_cas"
    /\ lock_state[ProxyValue(t)] = expected[t]
    /\ lock_state' = [lock_state EXCEPT ![ProxyValue(t)] = Operator]
    /\ claimer' = [claimer EXCEPT ![ProxyValue(t)] = t]
    /\ stack' = SetTop(t, [Top(t) EXCEPT !.acquired = TRUE])
    /\ pc' = [pc EXCEPT ![t] = "ap_lock"]
    /\ UNCHANGED <<mtx, locker_thread_id, expected, script, data, scopeLocals>>

HeldByAnyScope(t, v, exp) == exp = Scope
NeverHeldByOwnScope(t, v, exp) == FALSE
\* the test of the else branch: the value is held by a scope of this thread
HeldByOwnScope(t, v, exp) == exp = Scope /\ locker_thread_id[v] = t

\* the else branch with the value exp that the compare-exchange left in expected
ApElse(t, exp) ==
    /\ IF HeldByOwnScope(t, ProxyValue(t), exp)
       THEN /\ pc' = [pc EXCEPT ![t] = "idle"]
            /\ expected' = [expected EXCEPT ![t] = Unlocked]
       ELSE /\ pc' = [pc EXCEPT ![t] = "ap_wait"]
            /\ expected' = [expected EXCEPT ![t] = exp]
    /\ UNCHANGED <<shared, stack, scopeLocals, script, data>>

\* compare_exchange_weak fails although lock_state equals expected, as the
\* weak form may: expected keeps its value
ApCasSpurious(t) ==
    /\ pc[t] = "ap_cas"
    /\ lock_state[ProxyValue(t)] = expected[t]
    /\ ApElse(t, expected[t])

\* compare_exchange_weak fails because lock_state differs: expected is loaded
\* with the value found
ApCasFail(t) ==
    /\ pc[t] = "ap_cas"
    /\ lock_state[ProxyValue(t)] # expected[t]
    /\ ApElse(t, lock_state[ProxyValue(t)])

\* lock = std::unique_lock<std::mutex>(mtx) : blocks while the mutex is held
ApLock(t) ==
    /\ pc[t] = "ap_lock"
    /\ mtx[ProxyValue(t)] = NoThread
    /\ mtx' = [mtx EXCEPT ![ProxyValue(t)] = t]
    /\ stack' = SetTop(t, [Top(t) EXCEPT !.owns = TRUE])
    /\ pc' = [pc EXCEPT ![t] = "idle"]
    /\ UNCHANGED <<lock_state, locker_thread_id, claimer, expected, script, data, scopeLocals>>

\* state.wait(expected) finds another value and returns; expected = Unlocked
ApWaitReturn(t) ==
    /\ pc[t] = "ap_wait"
    /\ lock_state[ProxyValue(t)] # expected[t]
    /\ expected' = [expected EXCEPT ![t] = Unlocked]
    /\ pc' = [pc EXCEPT ![t] = "ap_cas"]
    /\ UNCHANGED <<shared, stack, scopeLocals, script, data>>

\* state.wait(expected) finds the old value and blocks
ApWaitBlock(t) ==
    /\ pc[t] = "ap_wait"
    /\ lock_state[ProxyValue(t)] = expected[t]
    /\ pc' = [pc EXCEPT ![t] = "ap_blocked"]
    /\ UNCHANGED <<shared, stack, expected, script, data, scopeLocals>>

AlwaysOwnsLock(f) == TRUE
\* lock.owns_lock() of the destructor
OwnsLock(f) == f.owns

\* ~access_proxy, body: store Unlocked when the unique_lock owns the mutex;
\* a proxy that owns nothing is gone in one step
ProxyDestroy(t) ==
    /\ pc[t] = "idle"
    /\ Depth(t) > 0
    /\ Top(t).kind = "proxy"
    /\ IF OwnsLock(Top(t))
       THEN /\ lock_state' = [lock_state EXCEPT ![ProxyValue(t)] = Unlocked]
            /\ claimer' = [claimer EXCEPT ![ProxyValue(t)] = NoThread]
            /\ pc' = [pc EXCEPT ![t] = "ap_notify"]
            /\ UNCHANGED stack
       ELSE /\ stack' = Pop(t)
            /\ UNCHANGED <<lock_state, claimer, pc>>
    /\ UNCHANGED <<mtx, locker_thread_id, expected, scopeLocals>>

\* ~access_proxy, body: lock_state.notify_one()
ApNotify(t) ==
    /\ pc[t] = "ap_notify"
    /\ NotifyOne(t, ProxyValue(t), "ap_unlock")
    /\ UNCHANGED <<shared, stack, expected, script, data, scopeLocals>>

\* ~access_proxy, members: the unique_lock releases the mutex it owns
ApUnlock(t) ==
    /\ pc[t] = "ap_unlock"
    /\ mtx' = [mtx EXCEPT ![ProxyValue(t)] = IF Top(t).owns THEN NoThread ELSE @]
    /\ stack' = Pop(t)
    /\ pc' = [pc EXCEPT ![t] = "idle"]
    /\ UNCHANGED <<lock_state, locker_thread_id, claimer, expected, script, data, scopeLocals>>

\* ------------------------------------------------------ synchronized_scope
\* synchronized_scope(SVs&... svs) : the caller opens a scope; lock_all enters
\* its loop with an empty lock_plan and locks_to_wait_for
ScopeBegin(t, args) ==
    /\ pc[t] = "idle"
    /\ Depth(t) < MaxDepth
    /\ stack' = [stack EXCEPT ![t] = Append(stack[t], ScopeFrame(args))]
    /\ idx' = [idx EXCEPT ![t] = 1]
    /\ lock_plan' = [lock_plan EXCEPT ![t] = <<>>]
    /\ locks_to_wait_for' = [locks_to_wait_for EXCEPT ![t] = <<>>]
    /\ pc' = [pc EXCEPT ![t] = "sc_claim"]
    /\ UNCHANGED <<shared, expected>>

\* the participant the loop of the thread is at
ClaimValue(t) == Top(t).sv[idx[t]]

\* std::sort of lock_plan by address
SortPlan(plan) == SortSeq(plan, LAMBDA a, b : a < b)

\* the fold over sv_ptrs moves on to the next participant; after the last it
\* waits if locks_to_wait_for is not empty, else sorts lock_plan and runs it
NextParticipant(t, plan, waits) ==
    /\ locks_to_wait_for' = [locks_to_wait_for EXCEPT ![t] = waits]
    /\ IF idx[t] < Len(Top(t).sv)
       THEN /\ idx' = [idx EXCEPT ![t] = @ + 1]
            /\ lock_plan' = [lock_plan EXCEPT ![t] = plan]
            /\ pc' = pc
       ELSE /\ idx' = [idx EXCEPT ![t] = 1]
            /\ IF waits # <<>>
               THEN /\ lock_plan' = [lock_plan EXCEPT ![t] = plan]
                    /\ pc' = [pc EXCEPT ![t] = "sc_wait"]
               ELSE /\ lock_plan' = [lock_plan EXCEPT ![t] = SortPlan(plan)]
                    /\ pc' = [pc EXCEPT ![t] = "sc_exec"]

\* compare_exchange_strong(expected, Scope) succeeds: the participant is
\* entered in lock_plan
ScClaimSucceed(t) ==
    /\ pc[t] = "sc_claim"
    /\ lock_state[ClaimValue(t)] = Unlocked
    /\ lock_state' = [lock_state EXCEPT ![ClaimValue(t)] = Scope]
    /\ claimer' = [claimer EXCEPT ![ClaimValue(t)] = t]
    /\ NextParticipant(t, Append(lock_plan[t], ClaimValue(t)), locks_to_wait_for[t])
    /\ UNCHANGED <<mtx, locker_thread_id, stack, expected, script, data>>

NeverNested(t, v) == FALSE
\* the test of the else branch of lock_all
NestedBySameThread(t, v) == locker_thread_id[v] = t

\* compare_exchange_strong fails, another thread is recorded as the locker
\* (or none): the participant is entered in locks_to_wait_for
ScClaimFail(t) ==
    /\ pc[t] = "sc_claim"
    /\ lock_state[ClaimValue(t)] # Unlocked
    /\ ~NestedBySameThread(t, ClaimValue(t))
    /\ NextParticipant(t, lock_plan[t], Append(locks_to_wait_for[t], ClaimValue(t)))
    /\ UNCHANGED <<shared, stack, expected, script, data>>

\* compare_exchange_strong fails and this thread is recorded as the locker:
\* throw std::logic_error out of the constructor
ScThrow(t) ==
    /\ pc[t] = "sc_claim"
    /\ lock_state[ClaimValue(t)] # Unlocked
    /\ NestedBySameThread(t, ClaimValue(t))
    /\ pc' = [pc EXCEPT ![t] = "sc_thrown"]
    /\ UNCHANGED <<shared, stack, expected, script, data, scopeLocals>>

\* the exception leaves the constructor: the scope never existed, so its
\* destructor does not run; lock_plan and locks_to_wait_for are destroyed
ScCatch(t) ==
    /\ pc[t] = "sc_thrown"
    /\ stack' = Pop(t)
    /\ idx' = [idx EXCEPT ![t] = 0]
    /\ lock_plan' = [lock_plan EXCEPT ![t] = <<>>]
    /\ locks_to_wait_for' = [locks_to_wait_for EXCEPT ![t] = <<>>]
    /\ pc' = [pc EXCEPT ![t] = "idle"]
    /\ UNCHANGED <<shared, expected, script, data>>

\* atomic_lock->wait(LockState::Scope) finds another value and returns; after
\* the last one, continue: the loop starts again with fresh vectors
ScWaitReturn(t) ==
    /\ pc[t] = "sc_wait"
    /\ lock_state[locks_to_wait_for[t][idx[t]]] # Scope
    /\ IF idx[t] < Len(locks_to_wait_for[t])
       THEN /\ idx' = [idx EXCEPT ![t] = @ + 1]
            /\ UNCHANGED <<pc, lock_plan, locks_to_wait_for>>
       ELSE /\ idx' = [idx EXCEPT ![t] = 1]
            /\ lock_plan' = [lock_plan EXCEPT ![t] = <<>>]
            /\ locks_to_wait_for' = [locks_to_wait_for EXCEPT ![t] = <<>>]
            /\ pc' = [pc EXCEPT ![t] = "sc_claim"]
    /\ UNCHANGED <<shared, stack, expected, script, data>>

\* atomic_lock->wait(LockState::Scope) finds Scope and blocks
ScWaitBlock(t) ==
    /\ pc[t] = "sc_wait"
    /\ lock_state[locks_to_wait_for[t][idx[t]]] = Scope
    /\ pc' = [pc EXCEPT ![t] = "sc_blocked"]
    /\ UNCHANGED <<shared, stack, expected, script, data, scopeLocals>>

\* a lock action, first half: svs->get_mutex().lock()
ScMutexLock(t) ==
    /\ pc[t] = "sc_exec"
    /\ mtx[lock_plan[t][idx[t]]] = NoThread
    /\ mtx' = [mtx EXCEPT ![lock_plan[t][idx[t]]] = t]
    /\ pc' = [pc EXCEPT ![t] = "sc_stamp"]
    /\ UNCHANGED <<lock_state, locker_thread_id, claimer, stack, expected, script, data, scopeLocals>>

StampNobody(t) == NoThread
\* the id a lock action records: std::this_thread::get_id()
StampId(t) == t

\* a lock action, second half: svs->locker_thread_id = this thread; after the
\* last action lock_all returns and the scope is constructed
ScStamp(t) ==
    /\ pc[t] = "sc_stamp"
    /\ locker_thread_id' = [locker_thread_id EXCEPT ![lock_plan[t][idx[t]]] = StampId(t)]
    /\ IF idx[t] < Len(lock_plan[t])
       THEN /\ idx' = [idx EXCEPT ![t] = @ + 1]
            /\ pc' = [pc EXCEPT ![t] = "sc_exec"]
            /\ UNCHANGED lock_plan
       ELSE /\ idx' = [idx EXCEPT ![t] = 0]
            /\ lock_plan' = [lock_plan EXCEPT ![t] = <<>>]
            /\ pc' = [pc EXCEPT ![t] = "idle"]
    /\ UNCHANGED <<lock_state, mtx, claimer, stack, expected, script, data, locks_to_wait_for>>

\* unlock_all: svs->lock_state.store(Unlocked) of participant i
UnStoreAt(t, i) ==
    /\ lock_state' = [lock_state EXCEPT ![Top(t).sv[i]] = Unlocked]
    /\ claimer' = [claimer EXCEPT ![Top(t).sv[i]] = NoThread]
    /\ idx' = [idx EXCEPT ![t] = i]
    /\ pc' = [pc EXCEPT ![t] = "un_reset"]
    /\ UNCHANGED <<mtx, locker_thread_id, stack, expected, lock_plan, locks_to_wait_for>>

\* ~synchronized_scope : the caller's scope ends; unlock_all starts with the
\* first participant
ScopeDestroy(t) ==
    /\ pc[t] = "idle"
    /\ Depth(t) > 0
    /\ Top(t).kind = "scope"
    /\ UnStoreAt(t, 1)

\* unlock_all: the store of a later participant
UnStore(t) ==
    /\ pc[t] = "un_store"
    /\ UnStoreAt(t, idx[t])
    /\ UNCHANGED <<script, data>>

KeepId(old) == old
\* the id unlock_all leaves in place of the old one: locker_thread_id = {}
ResetId(old) == NoThread

\* unlock_all: svs->locker_thread_id = {}
UnReset(t) ==
    /\ pc[t] = "un_reset"
    /\ locker_thread_id' = [locker_thread_id EXCEPT ![Top(t).sv[idx[t]]] = ResetId(@)]
    /\ pc' = [pc EXCEPT ![t] = "un_unlock"]
    /\ UNCHANGED <<lock_state, mtx, claimer, stack, expected, script, data, scopeLocals>>

\* unlock_all: svs->get_mutex().unlock()
UnUnlock(t) ==
    /\ pc[t] = "un_unlock"
    /\ mtx' = [mtx EXCEPT ![Top(t).sv[idx[t]]] = NoThread]
    /\ pc' = [pc EXCEPT ![t] = "un_notify"]
    /\ UNCHANGED <<lock_state, locker_thread_id, claimer, stack, expected, script, data, scopeLocals>>

\* unlock_all: svs->lock_state.notify_one(); after the last participant the
\* destructor has finished
UnNotify(t) ==
    /\ pc[t] = "un_notify"
    /\ IF idx[t] < Len(Top(t).sv)
       THEN /\ NotifyOne(t, Top(t).sv[idx[t]], "un_store")
            /\ idx' = [idx EXCEPT ![t] = @ + 1]
            /\ UNCHANGED stack
       ELSE /\ NotifyOne(t, Top(t).sv[idx[t]], "idle")
            /\ idx' = [idx EXCEPT ![t] = 0]
            /\ stack' = Pop(t)
    /\ UNCHANGED <<shared, expected, script, data, lock_plan, locks_to_wait_for>>

\* ------------------------------------------------------------- the callers
\* A caller that may do anything: open a proxy or a scope on any values, as
\* deep as MaxDepth, and let the innermost one go out of scope.
CallAccess(t, v) == AccessBegin(t, v) /\ UNCHANGED <<script, data>>
CallScope(t, args) == ScopeBegin(t, args) /\ UNCHANGED <<script, data>>
EndProxy(t) == ProxyDestroy(t) /\ UNCHANGED <<script, data>>
EndScope(t) == ScopeDestroy(t) /\ UNCHANGED <<script, data>>

\* A caller with a fixed program: a sequence of calls, taken in order.
CallProxy(v) == [op |-> "access", sv |-> <<v>>]
CallScopeOf(args) == [op |-> "scope", sv |-> args]
CallEnd == [op |-> "end", sv |-> <<>>]

NextCall(t, op) ==
    /\ script[t] # <<>>
    /\ Head(script[t]).op = op
    /\ script' = [script EXCEPT ![t] = Tail(script[t])]
    /\ UNCHANGED data

RunAccess(t) == NextCall(t, "access") /\ AccessBegin(t, Head(script[t]).sv[1])
RunScope(t) == NextCall(t, "scope") /\ ScopeBegin(t, Head(script[t]).sv)
RunEndProxy(t) == NextCall(t, "end") /\ ProxyDestroy(t)
RunEndScope(t) == NextCall(t, "end") /\ ScopeDestroy(t)

\* ------------------------------------------------------------ specification
Next ==
    \/ \E t \in Threads, v \in Values : CallAccess(t, v)
    \/ \E t \in Threads, args \in ScopeArgs : CallScope(t, args)
    \/ \E t \in Threads :
        \/ EndProxy(t)
        \/ EndScope(t)
        \/ ApCasSucceed(t)
        \/ ApCasSpurious(t)
        \/ ApCasFail(t)
        \/ ApLock(t)
        \/ ApWaitReturn(t)
        \/ ApWaitBlock(t)
        \/ ApNotify(t)
        \/ ApUnlock(t)
        \/ ScClaimSucceed(t)
        \/ ScClaimFail(t)
        \/ ScThrow(t)
        \/ ScCatch(t)
        \/ ScWaitReturn(t)
        \/ ScWaitBlock(t)
        \/ ScMutexLock(t)
        \/ ScStamp(t)
        \/ UnStore(t)
        \/ UnReset(t)
        \/ UnUnlock(t)
        \/ UnNotify(t)
        \/ SpuriousWake(t)

Spec == Init /\ [][Next]_vars

\* ------------------------------------------------------------------ claims
\* the frames of t whose constructor has returned and whose destructor has
\* not begun: all but the innermost one while t is inside a constructor or
\* destructor
Completed(t) == {i \in 1..Depth(t) : i < Depth(t) \/ pc[t] = "idle"}
HoldsScope(t, v) ==
    \E i \in Completed(t) : stack[t][i].kind = "scope" /\ v \in SeqRange(stack[t][i].sv)
HoldsProxy(t, v) ==
    \E i \in Completed(t) : stack[t][i].kind = "proxy" /\ stack[t][i].sv[1] = v
\* t is in a position to read or write the payload of v
CanAccess(t, v) == HoldsScope(t, v) \/ HoldsProxy(t, v)
\* t is inside the constructor of the proxy on top of its stack
InProxyCtor(t) == pc[t] \in {"ap_cas", "ap_lock", "ap_wait", "ap_blocked"}
\* t is inside lock_all of the scope on top of its stack
InLockAll(t) == pc[t] \in {"sc_claim", "sc_wait", "sc_blocked", "sc_exec", "sc_stamp"}
\* the step is one of thread t (t not blocked before it)
StepOf(t) == pc'[t] # pc[t] \/ stack'[t] # stack[t] \/ idx'[t] # idx[t]

\* C1: mutual exclusion: in every reachable state every value has at most one
\* thread in a position to read or write its payload (a completed access
\* proxy on it, or a completed scope, as a comparison builds, containing it).
MutualExclusion ==
    \A v \in Values : Cardinality({t \in Threads : CanAccess(t, v)}) <= 1

\* C1 witness: one thread holds a value while another is blocked in the
\* constructor of a proxy on it.
MutualExclusionWitness ==
    \E t \in Threads, w \in Threads, v \in Values :
        /\ t # w
        /\ CanAccess(t, v)
        /\ pc[w] = "ap_blocked"
        /\ ProxyValue(w) = v

\* C3: reentrancy transparency: for a thread inside a completed scope that
\* contains v, the constructor of a proxy on v returns at its first step
\* without owning the lock, and that step and the destruction of the proxy
\* leave lock_state, the mutex and locker_thread_id of every value unchanged;
\* while the proxy lives v stays Scope and stamped with the thread.
ReentrancyTransparency ==
    /\ [](\A t \in Threads, v \in Values :
            (HoldsScope(t, v) /\ HoldsProxy(t, v))
                => (lock_state[v] = Scope /\ locker_thread_id[v] = t /\ mtx[v] = t))
    /\ [][\A t \in Threads :
            /\ (pc[t] = "ap_cas" /\ HoldsScope(t, ProxyValue(t)) /\ StepOf(t))
                => /\ pc'[t] = "idle"
                   /\ stack'[t] = stack[t]
                   /\ ~Top(t).owns /\ ~Top(t).acquired
                   /\ UNCHANGED shared
            /\ (pc[t] = "idle" /\ Depth(t) > 1 /\ Top(t).kind = "proxy"
                  /\ HoldsScope(t, ProxyValue(t)) /\ StepOf(t) /\ Len(stack'[t]) <= Depth(t))
                => /\ pc'[t] = "idle"
                   /\ stack'[t] = SubSeq(stack[t], 1, Depth(t) - 1)
                   /\ UNCHANGED shared]_vars

\* C3 witness: a thread holds a completed scope over two values and a
\* completed proxy, which owns no lock, on one of them.
ReentrancyTransparencyWitness ==
    \E t \in Threads :
        /\ pc[t] = "idle"
        /\ Depth(t) = 2
        /\ stack[t][1].kind = "scope"
        /\ Len(stack[t][1].sv) = 2
        /\ stack[t][2].kind = "proxy"
        /\ stack[t][2].sv[1] \in SeqRange(stack[t][1].sv)
        /\ ~stack[t][2].owns

\* the scope t is constructing has a participant that a completed scope of t
\* holds
SelfConflict(t) ==
    /\ InLockAll(t) \/ pc[t] = "sc_thrown"
    /\ \E v \in SeqRange(Top(t).sv) : HoldsScope(t, v)

\* C4: reentrancy conflict detection: a thread inside a completed scope that
\* constructs a second scope with a participant of the first never waits,
\* never blocks and never gets the second scope: the claim pass runs to the
\* held participant and the step on it throws.
ReentrancyConflictDetected ==
    /\ [](\A t \in Threads : SelfConflict(t) => pc[t] \in {"sc_claim", "sc_thrown"})
    /\ [][\A t \in Threads :
            (pc[t] = "sc_claim" /\ HoldsScope(t, ClaimValue(t)) /\ StepOf(t))
                => pc'[t] = "sc_thrown"]_vars

\* C4 witness: inside a completed scope over two values the constructor of a
\* scope over (c, b), b of the first scope and c not, has thrown.
ReentrancyConflictWitness ==
    \E t \in Threads :
        /\ pc[t] = "sc_thrown"
        /\ Depth(t) = 2
        /\ Len(stack[t][1].sv) = 2
        /\ stack[t][1].sv[1] # stack[t][1].sv[2]
        /\ Len(Top(t).sv) = 2
        /\ Top(t).sv[1] \notin SeqRange(stack[t][1].sv)
        /\ Top(t).sv[2] \in SeqRange(stack[t][1].sv)

\* C5: state unchanged on error: when the constructor of a scope has thrown,
\* no participant is left claimed by the throwing thread unless the thread
\* held it before the construction began.
StateUnchangedOnError ==
    \A t \in Threads :
        pc[t] = "sc_thrown"
            => \A v \in SeqRange(Top(t).sv) :
                   (lock_state[v] # Unlocked /\ claimer[v] = t) => HoldsScope(t, v)

\* C6: scope construction postcondition: every participant of a completed
\* scope has lock_state Scope, the constructing thread as locker_thread_id
\* and its mutex held by that thread, from the return of the constructor to
\* the beginning of the destructor.
ScopePostcondition ==
    \A t \in Threads : \A i \in Completed(t) :
        stack[t][i].kind = "scope"
            => \A v \in SeqRange(stack[t][i].sv) :
                   /\ lock_state[v] = Scope
                   /\ locker_thread_id[v] = t
                   /\ mtx[v] = t

\* C6 witness: a completed scope whose two participants were given in
\* descending order of address, while another thread waits for one of them.
ScopePostconditionWitness ==
    \E t \in Threads, w \in Threads :
        /\ t # w
        /\ pc[t] = "idle"
        /\ Depth(t) = 1
        /\ Top(t).kind = "scope"
        /\ Len(Top(t).sv) = 2
        /\ Top(t).sv[1] > Top(t).sv[2]
        /\ Blocked(w)
        /\ WaitValue(w) \in SeqRange(Top(t).sv)

\* the step with which unlock_all, and so the destructor of the scope, ends
ScopeDestructorEnds(t) == pc[t] = "un_notify" /\ pc'[t] = "idle"

\* C7 as stated: after the destructor of a scope has finished every
\* participant has lock_state Unlocked, no locker_thread_id and a free mutex.
ReleasedOnScopeExit ==
    [][\A t \in Threads :
        ScopeDestructorEnds(t)
            => \A v \in SeqRange(Top(t).sv) :
                   /\ lock_state'[v] = Unlocked
                   /\ locker_thread_id'[v] = NoThread
                   /\ mtx'[v] = NoThread]_vars

\* C7 amended: after the destructor of a scope has finished, the destructing
\* thread holds no participant any more: lock_state is Unlocked unless another
\* thread has claimed the value since the destructor reset it, and neither
\* locker_thread_id nor the holder of the mutex is the destructing thread.
ReleasedOnScopeExitUnlessRetaken ==
    [][\A t \in Threads :
        ScopeDestructorEnds(t)
            => \A v \in SeqRange(Top(t).sv) :
                   /\ lock_state'[v] = Unlocked \/ claimer'[v] \in Threads \ {t}
                   /\ locker_thread_id'[v] # t
                   /\ mtx'[v] # t]_vars

\* C7 witness: the destructor of a scope over two values is at its last step
\* and another thread has already claimed the first one.
ReleasedOnScopeExitWitness ==
    \E t \in Threads :
        /\ pc[t] = "un_notify"
        /\ Len(Top(t).sv) = 2
        /\ idx[t] = 2
        /\ claimer[Top(t).sv[1]] \in Threads \ {t}

\* C8: the release of an access proxy is conditional and happens once: a
\* completed proxy owns the mutex exactly if its constructor made the
\* Unlocked -> Operator transition; the destructor of such a proxy stores
\* Unlocked and then frees the mutex; the destructor of any other proxy is
\* one step that changes no lock_state, mutex or locker_thread_id.
ProxyReleaseConditional ==
    /\ [](\A t \in Threads :
            /\ \A i \in Completed(t) :
                  stack[t][i].kind = "proxy" => (stack[t][i].owns <=> stack[t][i].acquired)
            /\ pc[t] \in {"ap_notify", "ap_unlock"} => (Top(t).acquired /\ Top(t).owns))
    /\ [][\A t \in Threads :
            /\ (pc[t] = "idle" /\ Depth(t) > 0 /\ Top(t).kind = "proxy"
                  /\ StepOf(t) /\ Len(stack'[t]) <= Depth(t))
                => IF Top(t).acquired
                   THEN /\ lock_state'[ProxyValue(t)] = Unlocked
                        /\ pc'[t] = "ap_notify"
                   ELSE /\ UNCHANGED shared
                        /\ pc'[t] = "idle"
                        /\ stack'[t] = SubSeq(stack[t], 1, Depth(t) - 1)
            /\ (pc[t] = "ap_unlock" /\ StepOf(t))
                => /\ mtx[ProxyValue(t)] = t
                   /\ mtx'[ProxyValue(t)] = NoThread
                   /\ pc'[t] = "idle"]_vars

\* C8 witness: one thread is releasing the mutex of a proxy that acquired it
\* while another holds a proxy that acquired nothing.
ProxyReleaseWitness ==
    \E t \in Threads, w \in Threads :
        /\ pc[t] = "ap_unlock"
        /\ Top(t).acquired
        /\ pc[w] = "idle"
        /\ Depth(w) = 2
        /\ Top(w).kind = "proxy"
        /\ ~Top(w).acquired

\* C10: nested access on the same thread: the constructor of a second proxy
\* on a value on which the thread holds a proxy that acquired the lock never
\* waits.
NestedAccessDoesNotBlock ==
    \A t \in Threads :
        (/\ InProxyCtor(t)
         /\ \E i \in Completed(t) :
                /\ stack[t][i].kind = "proxy"
                /\ stack[t][i].sv[1] = ProxyValue(t)
                /\ stack[t][i].acquired)
            => pc[t] \notin {"ap_wait", "ap_blocked"}

\* ---------------------------------------------------- overlapping scopes
\* Two kinds of thread build a scope over the same two values in opposite
\* argument orders, as a < b on one thread and b < a on another do, and let it
\* go out of scope.
InitOverlap ==
    /\ InitState
    /\ \E a \in Values, b \in Values :
        /\ a # b
        /\ script = [t \in Threads |->
                        IF t % 2 = 1
                        THEN <<CallScopeOf(<<a, b>>), CallEnd>>
                        ELSE <<CallScopeOf(<<b, a>>), CallEnd>>]

\* a step of thread t in its own code
OverlapStep(t) ==
    \/ RunScope(t)
    \/ RunEndScope(t)
    \/ ScClaimSucceed(t)
    \/ ScClaimFail(t)
    \/ ScWaitReturn(t)
    \/ ScWaitBlock(t)
    \/ ScMutexLock(t)
    \/ ScStamp(t)
    \/ UnStore(t)
    \/ UnReset(t)
    \/ UnUnlock(t)
    \/ UnNotify(t)

NextOverlap == \E t \in Threads : OverlapStep(t) \/ SpuriousWake(t)

\* every thread that can take a step of its code eventually takes one; a
\* spurious wake-up is never owed
FairOverlapSpec ==
    /\ InitOverlap
    /\ [][NextOverlap]_vars
    /\ \A t \in Threads : WF_vars(OverlapStep(t))

\* the constructor of the scope of t's program has returned
ScopeConstructed(t) == Len(script[t]) < 2 /\ ~InLockAll(t)

\* C2: deadlock-freedom under overlap: with scopes over (a, b) and (b, a)
\* built concurrently, under fair scheduling every construction eventually
\* completes.
OverlapCompletes == \A t \in Threads : <>ScopeConstructed(t)

\* ------------------------------------------------ waiters on a single value
\* Every thread opens one proxy or one single-value scope on the same value
\* and lets it go out of scope.
InitWaiters ==
    /\ InitState
    /\ \E v \in Values :
        script \in [Threads -> {<<CallProxy(v), CallEnd>>, <<CallScopeOf(<<v>>), CallEnd>>}]

WaitersStep(t) ==
    \/ RunAccess(t)
    \/ RunEndProxy(t)
    \/ ApCasSucceed(t)
    \/ ApCasSpurious(t)
    \/ ApCasFail(t)
    \/ ApLock(t)
    \/ ApWaitReturn(t)
    \/ ApWaitBlock(t)
    \/ ApNotify(t)
    \/ ApUnlock(t)
    \/ RunScope(t)
    \/ RunEndScope(t)
    \/ ScClaimSucceed(t)
    \/ ScClaimFail(t)
    \/ ScWaitReturn(t)
    \/ ScWaitBlock(t)
    \/ ScMutexLock(t)
    \/ ScStamp(t)
    \/ UnReset(t)
    \/ UnUnlock(t)
    \/ UnNotify(t)

NextWaiters == \E t \in Threads : WaitersStep(t) \/ SpuriousWake(t)

FairWaitersSpec ==
    /\ InitWaiters
    /\ [][NextWaiters]_vars
    /\ \A t \in Threads : WF_vars(WaitersStep(t))

\* the proxy of t's program is constructed and owns the lock
ProxyAcquired(t) ==
    /\ Depth(t) = 1
    /\ Top(t).kind = "proxy"
    /\ Top(t).owns

\* C9: waiters are released: a thread blocked in the constructor of a proxy
\* on a value it found held (expected is Operator or Scope), every holder
\* letting go in time, eventually acquires the value under fair scheduling.
WaitersReleased ==
    \A t \in Threads :
        (pc[t] = "ap_blocked" /\ expected[t] # Unlocked) ~> ProxyAcquired(t)

\* ------------------------------------------- nesting over what is held
\* t constructs (or has just failed to construct) a scope over exactly the
\* set of values of a completed scope it holds
SameSetNested(t) ==
    /\ InLockAll(t) \/ pc[t] = "sc_thrown"
    /\ \E i \in Completed(t) :
          /\ stack[t][i].kind = "scope"
          /\ SeqRange(stack[t][i].sv) = SeqRange(Top(t).sv)

\* C11: scope reentrancy over an outer scope: a thread that holds a completed
\* scope and constructs a second scope over the same set of values gets the
\* second scope without an error: its constructor never throws.
SameSetNestedCompletes ==
    \A t \in Threads : SameSetNested(t) => pc[t] # "sc_thrown"

\* t holds a completed proxy on v whose constructor took the lock itself
HoldsAcquiredProxy(t, v) ==
    \E i \in Completed(t) :
        /\ stack[t][i].kind = "proxy"
        /\ stack[t][i].sv[1] = v
        /\ stack[t][i].acquired

\* C12: scope reentrancy over an outstanding handle: a thread that holds a
\* proxy on a value and constructs a scope including that value has the
\* value recognised as held: the construction never waits for that value,
\* which only the constructing thread itself could release.
ScopeOverOwnProxyTerminates ==
    \A t \in Threads :
        InLockAll(t)
            => \A v \in SeqRange(locks_to_wait_for[t]) : ~HoldsAcquiredProxy(t, v)

\* C13: payload access invariant: whenever a thread is in a position to read
\* or write the payload of a value (through a proxy that acquired it, a proxy
\* that rides on the thread's scope, or inside a completed scope as a
\* comparison builds), the value is not Unlocked and its locker_thread_id is
\* the accessing thread.
PayloadAccessOwned ==
    \A t \in Threads : \A v \in Values :
        CanAccess(t, v) => (lock_state[v] # Unlocked /\ locker_thread_id[v] = t)

\* -------------------------------------------------- waiting in lock_all
\* the values t has put in state Scope for the scope it is constructing
\* (in this claim pass or in an earlier one of the same constructor call)
ClaimedByAttempt(t) ==
    {v \in SeqRange(Top(t).sv) :
        lock_state[v] = Scope /\ claimer[v] = t /\ ~HoldsScope(t, v)}

\* C15: no partial hold while waiting: whenever a thread constructing a scope
\* is about to block or is blocked waiting for a participant, no participant
\* is in state Scope on behalf of that construction.
NoPartialHoldWhileWaiting ==
    \A t \in Threads :
        pc[t] \in {"sc_wait", "sc_blocked"} => ClaimedByAttempt(t) = {}

\* t's step claims the participant the claim pass is at (Unlocked -> Scope)
ClaimsNow(t) ==
    /\ pc[t] = "sc_claim"
    /\ lock_state[Top(t).sv[idx[t]]] = Unlocked
    /\ lock_state'[Top(t).sv[idx[t]]] = Scope
    /\ claimer'[Top(t).sv[idx[t]]] = t

\* C17: identity-ordered acquisition: a scope takes hold of its participants
\* in ascending order of address from the first step of taking hold, the
\* claim Unlocked -> Scope, whatever the order of the arguments: every claim
\* is of a value with a larger address than the values the claim pass has
\* claimed before it.
ClaimsInAddressOrder ==
    [][\A t \in Threads :
        ClaimsNow(t)
            => \A w \in SeqRange(lock_plan[t]) : w < Top(t).sv[idx[t]]]_vars

\* C18: duplicate participants: a scope constructed with the same value
\* given twice (as a == a builds) locks the value once and completes: its
\* constructor is never blocked waiting for a value that the same constructor
\* call has itself put in state Scope.
DuplicateParticipantCompletes ==
    \A t \in Threads :
        (pc[t] = "sc_blocked" /\ Len(Top(t).sv) = 2 /\ Top(t).sv[1] = Top(t).sv[2])
            => WaitValue(t) \notin ClaimedByAttempt(t)

\* ------------------------------------------------------ uncontended access
\* thread w has a proxy or a scope on v, constructed or under construction
\* or being destroyed
OperatesOn(w, v) == \E i \in 1..Depth(w) : v \in SeqRange(stack[w][i].sv)

\* C19: uncontended access never blocks: the constructor of a proxy on a
\* value that is Unlocked and that no other thread operates on acquires the
\* value, also when compare_exchange_weak fails spuriously: it is never
\* blocked in wait on such a value.
UncontendedAccessNeverBlocks ==
    \A t \in Threads :
        (pc[t] = "ap_blocked"
            /\ \A w \in Threads \ {t} : ~OperatesOn(w, ProxyValue(t)))
            => lock_state[ProxyValue(t)] # Unlocked

\* ------------------------------------------------------------- piggyback
\* frame i of t is a completed proxy whose constructor took no lock
Piggybacked(t, i) ==
    /\ i \in Completed(t)
    /\ stack[t][i].kind = "proxy"
    /\ ~stack[t][i].acquired

\* C20: a proxy rides only on a real scope: every completed proxy whose
\* constructor acquired nothing belongs to a thread that holds, below it, a
\* completed scope containing the proxy's value, and that value is in state
\* Scope with the thread as its locker_thread_id: no id left behind by an
\* earlier scope and no scope of another thread lets a thread in.
PiggybackOnlyUnderScope ==
    \A t \in Threads : \A i \in 1..Depth(t) :
        Piggybacked(t, i)
            => /\ \E j \in 1..(i - 1) :
                     /\ stack[t][j].kind = "scope"
                     /\ stack[t][i].sv[1] \in SeqRange(stack[t][j].sv)
               /\ lock_state[stack[t][i].sv[1]] = Scope
               /\ locker_thread_id[stack[t][i].sv[1]] = t

\* C20 witness: a thread has a proxy riding on its scope while another thread,
\* which found the value in state Scope, is blocked in the constructor of a
\* proxy on the same value.
PiggybackOnlyUnderScopeWitness ==
    \E t \in Threads : \E w \in Threads \ {t} :
        /\ Piggybacked(t, Depth(t))
        /\ pc[w] = "ap_blocked"
        /\ ProxyValue(w) = ProxyValue(t)
        /\ expected[w] = Scope

\* ------------------------------------- scope construction under contention
\* Thread 1 takes one of two values, through a proxy or a one-value scope,
\* and lets it go; thread 2 constructs a scope over both values and destroys
\* it.  Each does so once; no other thread touches the two values.
InitContended ==
    /\ InitState
    /\ \E a \in Values, b \in Values, h \in Values :
        /\ a # b
        /\ h \in {a, b}
        /\ \E hold \in {<<CallProxy(h), CallEnd>>, <<CallScopeOf(<<h>>), CallEnd>>} :
              script = [t \in Threads |->
                           IF t = 1 THEN hold
                           ELSE IF t = 2 THEN <<CallScopeOf(<<a, b>>), CallEnd>>
                           ELSE <<>>]

ContendedStep(t) == WaitersStep(t) \/ UnStore(t)

NextContended == \E t \in Threads : ContendedStep(t) \/ SpuriousWake(t)

FairContendedSpec ==
    /\ InitContended
    /\ [][NextContended]_vars
    /\ \A t \in Threads : WF_vars(ContendedStep(t))

\* the scope of two values that t constructs is constructed
PairScopeConstructed(t) ==
    /\ pc[t] = "idle"
    /\ Depth(t) = 1
    /\ Top(t).kind = "scope"
    /\ Len(Top(t).sv) = 2

\* C16: contended scope construction completes: a thread constructing a scope
\* over two values of which another thread holds one, the holder letting go
\* and nobody taking either value again, has its scope constructed
\* eventually, under fair scheduling.
ContendedConstructionCompletes ==
    \A t \in Threads :
        (pc[t] \in {"sc_wait", "sc_blocked"}) ~> PairScopeConstructed(t)

\* --------------------------------------------------------------- comparison
\* The payload is read and written only here: a caller with a fixed program
\* compares two values (operator<=>: scope, read both payloads, end of scope)
\* or assigns to one (operator* or operator->, a write, end of the proxy).
CallCompare == [op |-> "compare", sv |-> <<>>]
\* sv carries the new payload
CallStore(x) == [op |-> "store", sv |-> <<x>>]

\* a <=> b: scope over (a, b), obj <=> other.obj, scope destroyed on return
CompareProgram(a, b) == <<CallScopeOf(<<a, b>>), CallCompare, CallEnd>>
\* *v = x, v->lives_cnt = x: the proxy lives to the end of the statement
AssignProgram(v, x) == <<CallProxy(v), CallStore(x), CallEnd>>

\* the ordering of two payloads (cat::operator<=> compares lives_cnt)
Order(x, y) == IF x < y THEN "less" ELSE IF x > y THEN "greater" ELSE "equal"

\* obj <=> other.obj reads one operand; the two reads come in either order
CmpLoad(t, k) ==
    /\ pc[t] = "idle"
    /\ script[t] # <<>>
    /\ Head(script[t]).op = "compare"
    /\ Top(t).kind = "scope"
    /\ loaded[t][k] = NoPayload
    /\ loaded' = [loaded EXCEPT ![t][k] = obj[Top(t).sv[k]]]
    /\ UNCHANGED <<shared, stack, pc, expected, script, scopeLocals, obj, result>>

\* both operands read: the ordering is the value operator<=> will return
CmpReturn(t) ==
    /\ pc[t] = "idle"
    /\ script[t] # <<>>
    /\ Head(script[t]).op = "compare"
    /\ loaded[t][1] # NoPayload
    /\ loaded[t][2] # NoPayload
    /\ result' = [result EXCEPT ![t] = Order(loaded[t][1], loaded[t][2])]
    /\ loaded' = [loaded EXCEPT ![t] = <<NoPayload, NoPayload>>]
    /\ script' = [script EXCEPT ![t] = Tail(script[t])]
    /\ UNCHANGED <<shared, stack, pc, expected, scopeLocals, obj>>

\* *ptr = rhs through the proxy on top of the stack
Store(t) ==
    /\ pc[t] = "idle"
    /\ script[t] # <<>>
    /\ Head(script[t]).op = "store"
    /\ Top(t).kind = "proxy"
    /\ obj' = [obj EXCEPT ![ProxyValue(t)] = Head(script[t]).sv[1]]
    /\ script' = [script EXCEPT ![t] = Tail(script[t])]
    /\ UNCHANGED <<shared, stack, pc, expected, scopeLocals, loaded, result>>

\* Thread 1 compares two distinct values; every other thread assigns to one
\* of the two or compares them the other way round.  Nobody holds anything
\* at the start.
InitCompare ==
    /\ InitLocks
    /\ obj \in [Values -> Payloads]
    /\ \E a \in Values, b \in Values :
        /\ a # b
        /\ \A v \in Values \ {a, b} : obj[v] = 0
        /\ script \in [Threads ->
                         {CompareProgram(a, b), CompareProgram(b, a)}
                             \cup {AssignProgram(v, x) : v \in {a, b}, x \in Payloads}]
        /\ script[1] = CompareProgram(a, b)

CompareStep(t) ==
    \/ ContendedStep(t)
    \/ CmpLoad(t, 1)
    \/ CmpLoad(t, 2)
    \/ CmpReturn(t)
    \/ Store(t)

NextCompare == \E t \in Threads : CompareStep(t) \/ SpuriousWake(t)

CompareSpec == InitCompare /\ [][NextCompare]_vars

\* t has computed the result of its comparison and still holds the scope
Compared(t) ==
    /\ result[t] # NoResult
    /\ pc[t] = "idle"
    /\ Depth(t) = 1
    /\ Top(t).kind = "scope"

\* the result is that of comparing the payloads as they are while both
\* values are locked by the comparison's scope
ResultOfLockedPayloads ==
    \A t \in Threads :
        Compared(t) => result[t] = Order(obj[Top(t).sv[1]], obj[Top(t).sv[2]])

\* C14 as stated: comparison round trip: a comparison of two distinct values
\* the thread does not hold yields the result of comparing the two payloads
\* as they were while both were locked, and when it returns both values have
\* lock_state Unlocked and no locker_thread_id.
ComparisonRoundTrip ==
    /\ []ResultOfLockedPayloads
    /\ [][\A t \in Threads :
            (ScopeDestructorEnds(t) /\ result[t] # NoResult)
                => \A v \in SeqRange(Top(t).sv) :
                       /\ lock_state'[v] = Unlocked
                       /\ locker_thread_id'[v] = NoThread]_vars

\* C14, amended: the result is that of the payloads while both were locked,
\* and when the comparison returns neither value is held by the comparing
\* thread any more: each is Unlocked unless another thread has claimed it
\* since, and the comparing thread is neither its locker_thread_id nor the
\* holder of its mutex.
ComparisonRoundTripUnlessRetaken ==
    /\ []ResultOfLockedPayloads
    /\ [][\A t \in Threads :
            (ScopeDestructorEnds(t) /\ result[t] # NoResult)
                => \A v \in SeqRange(Top(t).sv) :
                       /\ lock_state'[v] = Unlocked \/ claimer'[v] \in Threads \ {t}
                       /\ locker_thread_id'[v] # t
                       /\ mtx'[v] # t]_vars

\* C14 witness: a comparison has found its left operand smaller and has
\* returned, after another thread has changed a payload so that the left
\* operand is no longer the smaller one.
ComparisonRoundTripWitness ==
    \E t \in Threads :
        /\ result[t] = "less"
        /\ script[t] = <<>>
        /\ Depth(t) = 0
        /\ pc[t] = "idle"
        /\ \A a \in Values, b \in Values : obj[a] >= obj[b]

====
